---- MODULE Spec2Model ----
(***************************************************************************)
(* A model of src/proxy.py: the CodeArtifact PyPI proxy.                   *)
(*                                                                         *)
(* The Flask application runs with threaded=True (proxy.py:194-196), so    *)
(* every inbound request is handled by its own thread.  The threads share  *)
(* the TTLCache that memoizes get_token (proxy.py:30), the TOKEN_ERRORS    *)
(* dictionary (proxy.py:21) and ERROR_LOCK (proxy.py:22).  Each action     *)
(* below is one step of one thread: one access to that shared state,       *)
(* together with the thread-local work around it (an upstream response, a  *)
(* raise, building the response).  A thread waits in a state of its own    *)
(* only where it waits for the network: the mirror probe, the              *)
(* CredentialProvider call, the upstream POST.                             *)
(*                                                                         *)
(* The memoizing decorator is cachetools.cached with lock=None: the        *)
(* wrapper reads cache[k], on KeyError calls the function with no lock     *)
(* held, then writes cache[k] = v (whatever v is, None included).          *)
(*                                                                         *)
(* Spec is the server addressed with two repositories.  SpecColliding      *)
(* addresses it with two repositories whose get_cache_key strings are      *)
(* equal, SpecFull starts from a cache holding maxsize tokens, and         *)
(* SpecLive adds the fairness the threads and the boto3 client provide.    *)
(***************************************************************************)
EXTENDS Integers, Sequences, FiniteSets, TLC

\* ---------------------------------------------------------------- bounds
MaxTicks == 1

\* ------------------------------------------------------ program constants
TOKEN_VALIDITY == 43200
maxsize == 100

PYPI_BASE == "https://pypi.org/simple"

\* The clock advances in steps of one TTL.
TickSeconds == TOKEN_VALIDITY

\* The request threads of the server.
Threads == { "w1", "w2" }

\* Python's None, as returned by get_token on failure.
None == "None"

\* ERROR_LOCK when no thread holds it.
Free == "free"

\* ------------------------------------------------------------ input sets
\* Repository tuples as the route delivers them (account_id is an int).
RepoKey(a, r, d, p) == [account_id |-> a, region |-> r, domain |-> d, repo |-> p]

K1 == RepoKey(1, "us", "east-d", "r")
K2 == RepoKey(1, "us-east", "d", "r")
K3 == RepoKey(2, "us", "d", "r")

Keys == { K1, K2, K3 }

\* K1 and K2 are different repositories with the same get_cache_key string.

Paths == { "django/", "django/1.0/django-1.0.tar.gz" }

\* Outcomes of requests.head against the mirror: a status line, or an
\* exception (status 0 stands for "no response").  requests.head does not
\* follow redirects, so a 3xx is an answer like any other.
ProbeOutcomes ==
    { [raised |-> FALSE, status |-> 200],
      [raised |-> FALSE, status |-> 301],
      [raised |-> FALSE, status |-> 404],
      [raised |-> TRUE, status |-> 0] }

\* Exceptions boto3 raises from get_authorization_token.
ProviderErrors == { "ClientError" }

\* Outcomes of requests.post: an exception, or the upstream's status line.
PostOutcomes ==
    { [raised |-> TRUE, status |-> 0],
      [raised |-> FALSE, status |-> 200],
      [raised |-> FALSE, status |-> 403] }

\* How iterating the upstream body ends.
StreamOutcomes == { "complete", "truncated" }

VARIABLES
    repos,         \* the repository tuples this run's clients address
    now,           \* the cache timer (seconds)
    cache,         \* the TTLCache of get_token: entries in LRU order
    TOKEN_ERRORS,  \* cache_key string -> the exception recorded for it
    ERROR_LOCK,    \* the thread inside a `with ERROR_LOCK` block, or Free
    pc,            \* per thread: where its handler stands
    req,           \* per thread: the request being handled
    tok,           \* per thread: the value get_token has in hand
    hist,          \* per thread: what this request has done so far
    last           \* the request the latest step completed, with its response

vars == <<repos, now, cache, TOKEN_ERRORS, ERROR_LOCK, pc, req, tok, hist, last>>

\* --------------------------------------------------------- pure functions
get_cache_key(k) ==
    ToString(k.account_id) \o "-" \o k.region \o "-" \o k.domain \o "-" \o k.repo

endswith_slash(path) == Len(path) > 0 /\ SubSeq(path, Len(path), Len(path)) = "/"

startswith_slash(path) == Len(path) > 0 /\ SubSeq(path, 1, 1) = "/"

pypi_url(path) == PYPI_BASE \o "/" \o path

\* generate_url once get_token has returned a truthy token.
authenticated_url(k, path, token) ==
    LET p == IF startswith_slash(path) THEN SubSeq(path, 2, Len(path)) ELSE path
    IN  "https://aws:" \o token \o "@" \o k.domain \o "-" \o ToString(k.account_id)
          \o ".d.codeartifact." \o k.region \o ".amazonaws.com/pypi/" \o k.repo
          \o "/simple/" \o p

\* Variant: the message of line 70 without the key.
token_failure_message_anonymous(k) == "Failed to get token"

token_failure_message(k) == "Failed to get token for " \o get_cache_key(k)

\* The opaque token string the provider returns to a call issued at time at.
TokenOf(at) == "tok" \o ToString(at)

\* ------------------------------------------------------------- TTLCache
\* An entry is live while timer() < expires.
Expire(c, time) == SelectSeq(c, LAMBDA e : time < e.expires)

CacheIndex(c, k) == { i \in 1 .. Len(c) : c[i].key = k }

CacheHit(c, k, time) == \E i \in CacheIndex(c, k) : time < c[i].expires

CacheValue(c, k) == c[CHOOSE i \in CacheIndex(c, k) : TRUE].value

Without(c, k) == SelectSeq(c, LAMBDA e : e.key # k)

\* __getitem__ goes through __getlink, which moves the key to the
\* most-recently-used end whether or not the entry has expired.
CacheTouch(c, k) ==
    IF CacheIndex(c, k) = {} THEN c
    ELSE Append(Without(c, k), c[CHOOSE i \in CacheIndex(c, k) : TRUE])

\* __setitem__: expire, make room by popping the least recently used entry,
\* store, and stamp the entry with timer() + ttl.
CacheSet(c, k, v, time) ==
    LET c1 == Expire(c, time)
        c2 == IF CacheIndex(c1, k) = {} /\ Len(c1) + 1 > maxsize THEN Tail(c1) ELSE c1
    IN  Append(Without(c2, k), [key |-> k, value |-> v, expires |-> time + TOKEN_VALIDITY])

\* ------------------------------------------------------------ responses
NoReq == [route |-> "none"]
NoResp == [kind |-> "none"]

\* gt: get_token invocations, cp: CredentialProvider calls, at: when the
\* request issued its CredentialProvider call, wr: whether it wrote to the
\* cache or the error map, probe: the mirror probe's outcome, seen: the keys
\* of TOKEN_ERRORS when healthz held ERROR_LOCK, upstream: how the forwarded
\* POST went.
NoHist ==
    [gt |-> 0, cp |-> 0, at |-> 0, wr |-> FALSE, probe |-> "none", seen |-> {},
     upstream |-> "none"]

\* How the probe ended, as far as proxy() tells the outcomes apart.
probe_kind(o) ==
    IF o.raised THEN "raised"
    ELSE IF 200 <= o.status /\ o.status < 300 THEN "2xx" ELSE "other"

redirect(url) == [kind |-> "redirect", status |-> 302, location |-> url]

\* proxy(), lines 174-176: jsonify({"error": str(e)}), 500.
error_response(msg) == [kind |-> "error", status |-> 500, body |-> [error |-> msg]]

\* A streamed upstream response: its status line, and how the body ended.
stream_response(status, ended) == [kind |-> "stream", status |-> status, ended |-> ended]

\* last holds a completed request in the state its handler returns in, and
\* is blank again after any further step.
NoLast == [req |-> NoReq, resp |-> NoResp, hist |-> NoHist]

\* ---------------------------------------------------------------- Init
Init ==
    /\ repos = { K1, K3 }
    /\ now = 0
    /\ cache = << >>
    /\ TOKEN_ERRORS = << >>
    /\ ERROR_LOCK = Free
    /\ pc = [t \in Threads |-> "idle"]
    /\ req = [t \in Threads |-> NoReq]
    /\ tok = [t \in Threads |-> None]
    /\ hist = [t \in Threads |-> NoHist]
    /\ last = NoLast

FilePath == "django/1.0/django-1.0.tar.gz"

\* The repositories that packages are uploaded to.  proxy_post takes the same
\* generate_url path for every repository, so one upload target is modelled.
UploadKeys == { K1 }

Requests ==
    [route : {"proxy"}, method : {"GET"}, key : repos, path : Paths]
        \cup [route : {"proxy"}, method : {"POST"},
               key : repos \cap UploadKeys, path : {FilePath}]

\* A step that completes no request.
Quiet == last' = NoLast

\* The clock moves on at any time.
Tick ==
    /\ now < MaxTicks * TickSeconds
    /\ now' = now + TickSeconds
    /\ Quiet
    /\ UNCHANGED <<ERROR_LOCK, repos, cache, TOKEN_ERRORS, pc, req, tok, hist>>

\* The handler of thread t returns response rsp to request r (h: what the
\* request did); the thread is free for the next request.
Complete(t, r, rsp, h) ==
    /\ last' = [req |-> r, resp |-> rsp, hist |-> h]
    /\ pc' = [pc EXCEPT ![t] = "idle"]
    /\ req' = [req EXCEPT ![t] = NoReq]
    /\ tok' = [tok EXCEPT ![t] = None]
    /\ hist' = [hist EXCEPT ![t] = NoHist]

\* Thread t goes on handling r at position p.
Continue(t, r, p, v, h) ==
    /\ Quiet
    /\ pc' = [pc EXCEPT ![t] = p]
    /\ req' = [req EXCEPT ![t] = r]
    /\ tok' = [tok EXCEPT ![t] = v]
    /\ hist' = [hist EXCEPT ![t] = h]

\* ------------------------------------------------------------ get_token
\* Variant: generate_url without the check of lines 69-70.
AfterTokenUnchecked(t, r, v, h) ==
    IF r.method = "GET"
    THEN Complete(t, r, redirect(authenticated_url(r.key, r.path, v)), h)
    ELSE Continue(t, r, "forward", v, h)

\* What proxy() does with the value v get_token returned: generate_url
\* (lines 68-72), then redirect for GET (line 171); a POST goes on to
\* proxy_post (line 173).
AfterToken(t, r, v, h) ==
    IF v = None \/ v = ""
    THEN Complete(t, r, error_response(token_failure_message(r.key)), h)
    ELSE IF r.method = "GET"
    THEN Complete(t, r, redirect(authenticated_url(r.key, r.path, v)), h)
    ELSE Continue(t, r, "forward", v, h)

\* The wrapper of @cached reads cache[k]: a hit returns the cached value,
\* a miss (KeyError) falls through to the function body.
CachedLookup(t, r, h) ==
    /\ cache' = CacheTouch(cache, r.key)
    /\ IF CacheHit(cache, r.key, now)
       THEN AfterToken(t, r, CacheValue(cache, r.key), [h EXCEPT !.gt = @ + 1])
       ELSE Continue(t, r, "clear", None, [h EXCEPT !.gt = @ + 1])

\* The wrapper of @cached stores what the function returned, cache[k] = v,
\* and returns it to generate_url.
CachedStore(t, v) ==
    /\ cache' = CacheSet(cache, req[t].key, v, now)
    /\ AfterToken(t, req[t], v, [hist[t] EXCEPT !.wr = TRUE])

\* ---------------------------------------------------------------- proxy
\* Variant: proxy() probing the mirror for every GET (line 159 dropped).
ReceiveProxyProbesAll(t, r) ==
    /\ pc[t] = "idle"
    /\ r.route = "proxy"
    /\ IF r.method = "GET"
       THEN /\ Continue(t, r, "probe", None, NoHist)
            /\ cache' = cache
       ELSE CachedLookup(t, r, NoHist)
    /\ UNCHANGED <<ERROR_LOCK, repos, now, TOKEN_ERRORS>>

\* proxy(), lines 155-173: a GET of a directory path probes the mirror first;
\* every other request goes straight to generate_url and get_token.
ReceiveProxy(t, r) ==
    /\ pc[t] = "idle"
    /\ r.route = "proxy"
    /\ IF r.method = "GET" /\ endswith_slash(r.path)
       THEN /\ Continue(t, r, "probe", None, NoHist)
            /\ cache' = cache
       ELSE CachedLookup(t, r, NoHist)
    /\ UNCHANGED <<ERROR_LOCK, repos, now, TOKEN_ERRORS>>

\* Variant: the mirror's answer ignored (lines 166-167 dropped).
ProbeIgnored(t, o) ==
    /\ pc[t] = "probe"
    /\ CachedLookup(t, req[t], [hist[t] EXCEPT !.probe = probe_kind(o)])
    /\ UNCHANGED <<ERROR_LOCK, repos, now, TOKEN_ERRORS>>

\* Variant: the probe without its own try (lines 164, 168-169 dropped), so
\* that a raise reaches the except of line 174.
ProbeRaiseFails(t, o) ==
    /\ pc[t] = "probe"
    /\ IF o.raised
       THEN /\ Complete(t, req[t], error_response("ConnectionError"),
                        [hist[t] EXCEPT !.probe = probe_kind(o)])
            /\ cache' = cache
       ELSE IF 200 <= o.status /\ o.status < 300
       THEN /\ Complete(t, req[t], redirect(pypi_url(req[t].path)),
                        [hist[t] EXCEPT !.probe = probe_kind(o)])
            /\ cache' = cache
       ELSE CachedLookup(t, req[t], [hist[t] EXCEPT !.probe = probe_kind(o)])
    /\ UNCHANGED <<ERROR_LOCK, repos, now, TOKEN_ERRORS>>

\* proxy(), lines 162-171: the HEAD probe of the mirror returns or raises.
Probe(t, o) ==
    /\ pc[t] = "probe"
    /\ IF ~o.raised /\ 200 <= o.status /\ o.status < 300
       THEN /\ Complete(t, req[t], redirect(pypi_url(req[t].path)),
                        [hist[t] EXCEPT !.probe = probe_kind(o)])
            /\ cache' = cache
       ELSE CachedLookup(t, req[t], [hist[t] EXCEPT !.probe = probe_kind(o)])
    /\ UNCHANGED <<ERROR_LOCK, repos, now, TOKEN_ERRORS>>

\* Variant: the previous error left in place (lines 39-41 dropped).
ErrorsKept(errors, ck) == errors

\* get_token, lines 36-51: under ERROR_LOCK delete the key's error, then
\* issue the CredentialProvider call (no lock held).
ErrorsWithout(errors, ck) == [x \in DOMAIN errors \ {ck} |-> errors[x]]

\* Variant: the CredentialProvider call moved inside the with block of line
\* 39, so that ERROR_LOCK stays held while the call is in flight.
ClearAndCallLocked(t) ==
    /\ pc[t] = "clear"
    /\ ERROR_LOCK = Free
    /\ ERROR_LOCK' = t
    /\ TOKEN_ERRORS' = ErrorsWithout(TOKEN_ERRORS, get_cache_key(req[t].key))
    /\ Continue(t, req[t], "fetch", None,
                [hist[t] EXCEPT !.cp = @ + 1,
                                !.at = now,
                                !.wr = @ \/ get_cache_key(req[t].key) \in DOMAIN TOKEN_ERRORS])
    /\ UNCHANGED <<repos, now, cache>>

\* The with block of lines 39-41 is entered with the lock free and left
\* before the call of line 47 is issued.
ClearAndCall(t) ==
    /\ pc[t] = "clear"
    /\ ERROR_LOCK = Free
    /\ ERROR_LOCK' = Free
    /\ TOKEN_ERRORS' = ErrorsWithout(TOKEN_ERRORS, get_cache_key(req[t].key))
    /\ Continue(t, req[t], "fetch", None,
                [hist[t] EXCEPT !.cp = @ + 1,
                                !.at = now,
                                !.wr = @ \/ get_cache_key(req[t].key) \in DOMAIN TOKEN_ERRORS])
    /\ UNCHANGED <<repos, now, cache>>

\* get_token, lines 52-54: the provider answers with the token, get_token
\* returns it and the wrapper stores it.
ProviderReturns(t) ==
    /\ pc[t] = "fetch"
    /\ CachedStore(t, TokenOf(hist[t].at))
    /\ UNCHANGED <<ERROR_LOCK, repos, now, TOKEN_ERRORS>>

\* get_token, lines 56-60: the provider raises; the exception is recorded
\* under ERROR_LOCK and get_token returns None.
RecordError(errors, ck, e) ==
    [x \in DOMAIN errors \cup {ck} |-> IF x = ck THEN e ELSE errors[x]]

ExceptionOf(e) == [class |-> e, message |-> "An error occurred (" \o e \o ")"]

ProviderRaises(t, e) ==
    /\ pc[t] = "fetch"
    /\ ERROR_LOCK = Free
    /\ ERROR_LOCK' = Free
    /\ TOKEN_ERRORS' = RecordError(TOKEN_ERRORS, get_cache_key(req[t].key), ExceptionOf(e))
    /\ Continue(t, req[t], "store", None, [hist[t] EXCEPT !.wr = TRUE])
    /\ UNCHANGED <<repos, now, cache>>

\* The wrapper stores the None get_token returned after the raise.
StoreFailure(t) ==
    /\ pc[t] = "store"
    /\ CachedStore(t, tok[t])
    /\ UNCHANGED <<ERROR_LOCK, repos, now, TOKEN_ERRORS>>

\* ----------------------------------------------------------- proxy_post
\* requests.post raises (caught by proxy's except, lines 174-176), or returns
\* once the upstream's status line is in; the Response carrying generate()
\* is returned, the status is sent, and generate() (lines 106-109) runs
\* outside proxy(): the body ends, or iter_content raises mid-stream.
Forward(t, o, e) ==
    /\ pc[t] = "forward"
    /\ IF o.raised
       THEN Complete(t, req[t], error_response("ConnectionError"),
                     [hist[t] EXCEPT !.upstream = "raised"])
       ELSE Complete(t, req[t], stream_response(o.status, e),
                     [hist[t] EXCEPT !.upstream = e])
    /\ UNCHANGED <<ERROR_LOCK, repos, now, cache, TOKEN_ERRORS>>

\* -------------------------------------------------------------- healthz
\* Variant: the loop of line 124 left after its first entry.
health_errors_first(errors) ==
    [ck \in { CHOOSE x \in DOMAIN errors : TRUE } |->
        [error |-> errors[ck].message, type |-> errors[ck].class]]

\* The errors document of lines 123-128.
health_errors(errors) ==
    [ck \in DOMAIN errors |-> [error |-> errors[ck].message, type |-> errors[ck].class]]

unhealthy_response(errors) ==
    [kind |-> "health", status |-> 500,
     body |-> [errors |-> health_errors(errors), status |-> 500]]

healthy_response(size) ==
    [kind |-> "health", status |-> 200,
     body |-> [status |-> "healthy", cache_size |-> size]]

HealthzReq == [route |-> "healthz"]

\* healthz, lines 119-135: under ERROR_LOCK, report the errors if any.
HealthzErrors(t) ==
    /\ pc[t] = "idle"
    /\ ERROR_LOCK = Free
    /\ ERROR_LOCK' = Free
    /\ IF DOMAIN TOKEN_ERRORS # {}
       THEN Complete(t, HealthzReq, unhealthy_response(TOKEN_ERRORS),
                     [NoHist EXCEPT !.seen = DOMAIN TOKEN_ERRORS])
       ELSE Continue(t, HealthzReq, "hz_cache", None,
                     [NoHist EXCEPT !.seen = DOMAIN TOKEN_ERRORS])
    /\ UNCHANGED <<repos, now, cache, TOKEN_ERRORS>>

\* Variant: the report of lines 145-151 with the cached values in cache_info.
HealthzCacheDumpsValues(t) ==
    /\ pc[t] = "hz_cache"
    /\ cache' = Expire(cache, now)
    /\ Complete(t, req[t],
                [kind |-> "health", status |-> 200,
                 body |-> [status |-> "healthy", cache_size |-> Len(cache'),
                           cache_info |-> [i \in 1 .. Len(cache') |-> cache'[i].value]]],
                [hist[t] EXCEPT !.wr = (cache' # cache)])
    /\ UNCHANGED <<ERROR_LOCK, repos, now, TOKEN_ERRORS>>

\* healthz, lines 138-151: with the lock released, len(get_token.cache);
\* TTLCache.__len__ drops the expired entries before it counts.
HealthzCache(t) ==
    /\ pc[t] = "hz_cache"
    /\ cache' = Expire(cache, now)
    /\ Complete(t, req[t], healthy_response(Len(cache')),
                [hist[t] EXCEPT !.wr = (cache' # cache)])
    /\ UNCHANGED <<ERROR_LOCK, repos, now, TOKEN_ERRORS>>

Next ==
    \/ Tick
    \/ \E t \in Threads : \E r \in Requests : ReceiveProxy(t, r)
    \/ \E t \in Threads : \E o \in ProbeOutcomes : Probe(t, o)
    \/ \E t \in Threads : ClearAndCall(t)
    \/ \E t \in Threads : ProviderReturns(t)
    \/ \E t \in Threads : \E e \in ProviderErrors : ProviderRaises(t, e)
    \/ \E t \in Threads : StoreFailure(t)
    \/ \E t \in Threads : \E o \in PostOutcomes : \E e \in StreamOutcomes : Forward(t, o, e)
    \/ \E t \in Threads : HealthzErrors(t)
    \/ \E t \in Threads : HealthzCache(t)

Spec == Init /\ [][Next]_vars

\* The same server addressed with K1 and K2, two repository tuples whose
\* get_cache_key strings are equal.
InitColliding ==
    /\ repos = { K1, K2 }
    /\ now = 0
    /\ cache = << >>
    /\ TOKEN_ERRORS = << >>
    /\ ERROR_LOCK = Free
    /\ pc = [t \in Threads |-> "idle"]
    /\ req = [t \in Threads |-> NoReq]
    /\ tok = [t \in Threads |-> None]
    /\ hist = [t \in Threads |-> NoHist]
    /\ last = NoLast

SpecColliding == InitColliding /\ [][Next]_vars

\* The repositories other clients have fetched from before: one short of
\* maxsize of them.
OtherKeys == [i \in 1 .. maxsize - 1 |-> RepoKey(100 + i, "us", "d", "r")]

\* The cache after get_token has returned a token for K1 and then for each of
\* OtherKeys, all at time 0: maxsize entries, K1 the least recently used.
FullCache ==
    <<[key |-> K1, value |-> TokenOf(0), expires |-> TOKEN_VALIDITY]>>
        \o [i \in 1 .. maxsize - 1 |->
               [key |-> OtherKeys[i], value |-> TokenOf(0), expires |-> TOKEN_VALIDITY]]

\* The server with a full cache, addressed with K1 and K3.
InitFull ==
    /\ repos = { K1, K3 }
    /\ now = 0
    /\ cache = FullCache
    /\ TOKEN_ERRORS = << >>
    /\ ERROR_LOCK = Free
    /\ pc = [t \in Threads |-> "idle"]
    /\ req = [t \in Threads |-> NoReq]
    /\ tok = [t \in Threads |-> None]
    /\ hist = [t \in Threads |-> NoHist]
    /\ last = NoLast

SpecFull == InitFull /\ [][Next]_vars

\* The server addressed with one repository.
InitOne ==
    /\ repos = { K1 }
    /\ now = 0
    /\ cache = << >>
    /\ TOKEN_ERRORS = << >>
    /\ ERROR_LOCK = Free
    /\ pc = [t \in Threads |-> "idle"]
    /\ req = [t \in Threads |-> NoReq]
    /\ tok = [t \in Threads |-> None]
    /\ hist = [t \in Threads |-> NoHist]
    /\ last = NoLast

\* What the scheduling of the handler threads guarantees.  A thread that can
\* take a step of its own code takes it.  The boto3 client has connect and
\* read timeouts by default, so a CredentialProvider call returns or raises.
\* requests.head (line 165) and requests.post (line 99) are called without a
\* timeout, and requests then waits for the peer without limit: nothing
\* obliges Probe or Forward to happen.  Nothing obliges a client to send a
\* request or the clock to be read.
Fairness ==
    \A t \in Threads :
        /\ WF_vars(ClearAndCall(t))
        /\ WF_vars(StoreFailure(t))
        /\ WF_vars(HealthzCache(t))
        /\ WF_vars(ProviderReturns(t) \/ \E e \in ProviderErrors : ProviderRaises(t, e))

SpecLive == InitOne /\ [][Next]_vars /\ Fairness

\* ======================================================================
\* Properties
\* ======================================================================
\* A request to the proxy route has just completed.
Served == last.req.route = "proxy"

\* The value get_token gave the request that has just completed.  A GET, and
\* a request whose token failed, complete in the step of their cache access,
\* so the entry read or written is the one now in the cache.
Got == CacheValue(cache, last.req.key)

\* The threads whose CredentialProvider call for k is outstanding.
Outstanding(k) == { t \in Threads : pc[t] = "fetch" /\ req[t].key = k }

\* The threads inside the body of get_token(k) that have issued a
\* CredentialProvider call of their own.
Refreshing(k) == { t \in Threads : pc[t] \in { "fetch", "store" } /\ req[t].key = k }

\* The private-repository URL of section 6, written out.
PrivateUrl(k, path, token) ==
    "https://aws:" \o token \o "@" \o k.domain \o "-" \o ToString(k.account_id)
        \o ".d.codeartifact." \o k.region \o ".amazonaws.com/pypi/" \o k.repo
        \o "/simple/" \o path

\* The name of a repository in diagnostics.
KeyName(k) == ToString(k.account_id) \o "-" \o k.region \o "-" \o k.domain \o "-" \o k.repo

\* C1: in every reachable state, every RepositoryKey has at most one
\* CredentialProvider call outstanding (started and not yet returned).
C1_OneOutstandingCall == \A k \in Keys : Cardinality(Outstanding(k)) <= 1

\* C2: concurrent get_token(K) callers that find no valid token share one
\* CredentialProvider call: while one caller is refreshing K, no other
\* caller is refreshing K or has just returned from a call of its own.
C2_ConcurrentCallersShareOneCall ==
    \A k \in Keys :
        /\ Cardinality(Refreshing(k)) <= 1
        /\ (Served /\ last.req.key = k /\ last.hist.cp > 0) => Refreshing(k) = {}

\* C3: get_token(K) calls within one TTL window cause at most one
\* CredentialProvider call: no call for K is in flight that was issued less
\* than a TTL away from the time a cached result for K was stored; and a
\* get_token that finds a live cached value calls no provider.
C3_OneCallPerTtlWindow ==
    /\ \A t \in Threads :
           pc[t] = "fetch" =>
               \A i \in CacheIndex(cache, req[t].key) :
                   ~ /\ hist[t].at < cache[i].expires
                     /\ cache[i].expires - TOKEN_VALIDITY < hist[t].at + TOKEN_VALIDITY
    /\ (Served /\ last.hist.gt > 0 /\ ~last.hist.wr) => last.hist.cp = 0

\* A token (not None) is cached for k and still within its TTL.
ValidToken(c, k, time) == CacheHit(c, k, time) /\ CacheValue(c, k) # None

\* C4: a failed refresh attempt for K never removes or replaces a cached
\* token for K that is still within its TTL.
C4_FailedRefreshKeepsValidToken ==
    [][\A t \in Threads :
           (pc[t] = "store" /\ pc'[t] # "store" /\ ValidToken(cache, req[t].key, now))
               => /\ ValidToken(cache', req[t].key, now)
                  /\ CacheValue(cache', req[t].key) = CacheValue(cache, req[t].key)]_vars

\* A step in which thread t's CredentialProvider call for ck's key raises.
RaisesFor(t, ck) ==
    pc[t] = "fetch" /\ pc'[t] = "store" /\ get_cache_key(req[t].key) = ck

\* A step in which thread t begins a refresh attempt for ck's key.
BeginsRefresh(t, ck) ==
    pc[t] = "clear" /\ pc'[t] = "fetch" /\ get_cache_key(req[t].key) = ck

\* A step in which thread t's get_token for ck's key returns a token.
ReturnsToken(t, ck) ==
    /\ pc[t] \in { "fetch", "store" }
    /\ get_cache_key(req[t].key) = ck
    /\ \/ pc'[t] = "forward"
       \/ pc'[t] = "idle" /\ last'.resp.kind = "redirect"

\* C5 as stated: once the provider call for K has failed, K stays in the
\* health report until a following get_token(K) succeeds: K leaves the error
\* map only in a step in which a get_token(K) returns a token.
C5_ListedUntilSuccess ==
    [][\A ck \in DOMAIN TOKEN_ERRORS :
           ck \notin DOMAIN TOKEN_ERRORS' => \E t \in Threads : ReturnsToken(t, ck)]_vars

\* C5 as amended: a provider call that raises for K puts K in the error map
\* and its get_token returns a failure; K is then listed by every health
\* report until the next refresh attempt for K begins, which removes the
\* record before it calls the provider (not when it succeeds); the record
\* comes back only when a provider call for K raises again.
C5_ListedUntilNextAttempt ==
    /\ [](last.resp.kind = "health" =>
              \A ck \in last.hist.seen :
                  last.resp.status = 500 /\ ck \in DOMAIN last.resp.body.errors)
    /\ [][\A t \in Threads :
              /\ \A ck \in DOMAIN TOKEN_ERRORS' :
                     RaisesFor(t, ck) => tok'[t] = None
              /\ (pc[t] = "store" /\ pc'[t] # "store") =>
                     /\ pc'[t] = "idle"
                     /\ last'.resp.kind = "error"
                     /\ last'.resp.status = 500
              /\ (pc[t] = "fetch" /\ pc'[t] = "store") =>
                     get_cache_key(req[t].key) \in DOMAIN TOKEN_ERRORS'
              /\ (pc[t] = "clear" /\ pc'[t] = "fetch") =>
                     get_cache_key(req[t].key) \notin DOMAIN TOKEN_ERRORS']_vars
    /\ [][/\ \A ck \in DOMAIN TOKEN_ERRORS :
                 ck \notin DOMAIN TOKEN_ERRORS' => \E t \in Threads : BeginsRefresh(t, ck)
          /\ \A ck \in DOMAIN TOKEN_ERRORS' :
                 ck \notin DOMAIN TOKEN_ERRORS => \E t \in Threads : RaisesFor(t, ck)]_vars

\* C5 witness: the failure of K1 was cached as None and has expired, a new
\* refresh attempt for K1 is in flight, and the record of K1 is gone.
C5_Witness ==
    \E t \in Threads :
        /\ pc[t] = "fetch"
        /\ req[t].key = K1
        /\ CacheIndex(cache, K1) # {}
        /\ CacheValue(cache, K1) = None
        /\ ~CacheHit(cache, K1, now)
        /\ get_cache_key(K1) \notin DOMAIN TOKEN_ERRORS

\* C6: /healthz answers 200 exactly when TOKEN_ERRORS was empty when the
\* report looked at it, and otherwise 500 with an error map that has one
\* entry, message and classification, for every key of TOKEN_ERRORS.
C6_HealthzReportsEveryFailure ==
    last.resp.kind = "health" =>
        /\ last.resp.status \in { 200, 500 }
        /\ last.resp.status = 200 <=> last.hist.seen = {}
        /\ last.resp.status = 500 =>
               /\ last.resp.body.status = 500
               /\ DOMAIN last.resp.body.errors = DOMAIN TOKEN_ERRORS
               /\ last.hist.seen = DOMAIN TOKEN_ERRORS
               /\ \A ck \in DOMAIN TOKEN_ERRORS :
                      /\ last.resp.body.errors[ck].error = TOKEN_ERRORS[ck].message
                      /\ last.resp.body.errors[ck].type = TOKEN_ERRORS[ck].class

\* C6 witness: an unhealthy report that lists two failing keys.
C6_Witness ==
    /\ last.resp.kind = "health"
    /\ last.resp.status = 500
    /\ DOMAIN last.resp.body.errors = { KeyName(K1), KeyName(K3) }

\* The request that has just completed was a GET of a directory path.
ServedDir == Served /\ last.req.method = "GET" /\ last.req.path = "django/"

\* The request that has just completed was a GET of a file path.
ServedFile == Served /\ last.req.method = "GET" /\ last.req.path = FilePath

\* C7: a GET of a directory path whose mirror probe answers 2xx is redirected
\* to the mirror URL, calls neither get_token nor the CredentialProvider, and
\* changes neither the token cache nor the error map.
C7_MirrorHitBypassesToken ==
    /\ [](ServedDir /\ last.hist.probe = "2xx" =>
              /\ last.resp.kind = "redirect"
              /\ last.resp.location = "https://pypi.org/simple/" \o last.req.path
              /\ last.hist.gt = 0
              /\ last.hist.cp = 0
              /\ ~last.hist.wr)
    /\ [][\A t \in Threads :
              (\/ pc[t] = "idle" /\ pc'[t] = "probe"
               \/ pc[t] = "probe" /\ pc'[t] = "idle" /\ last'.hist.probe = "2xx")
                  => UNCHANGED <<cache, TOKEN_ERRORS>>]_vars

\* C7 witness: a directory GET answered with the redirect to the mirror while
\* the other thread's CredentialProvider call is in flight.
C7_Witness ==
    /\ ServedDir
    /\ last.hist.probe = "2xx"
    /\ last.resp.kind = "redirect"
    /\ \E t \in Threads : pc[t] = "fetch"

\* What a request that went through get_token is answered with: the redirect
\* to the private URL carrying the token, or the 500 naming the repository.
AnswerWithToken ==
    IF Got = None
    THEN /\ last.resp.kind = "error"
         /\ last.resp.status = 500
         /\ last.resp.body.error = "Failed to get token for " \o KeyName(last.req.key)
    ELSE /\ last.resp.kind = "redirect"
         /\ last.resp.location = PrivateUrl(last.req.key, last.req.path, Got)

\* C8: a GET of a directory path whose mirror probe answers non-2xx or raises
\* is not failed by the probe: it goes on to get_token and, when that gives a
\* token, is redirected to the authenticated private URL.
C8_MirrorMissFallsThrough ==
    ServedDir /\ last.hist.probe # "2xx" =>
        /\ last.hist.probe \in { "other", "raised" }
        /\ last.hist.gt = 1
        /\ AnswerWithToken

\* C8 witness: the probe raised and the request was redirected to the
\* private URL.
C8_Witness ==
    /\ ServedDir
    /\ last.hist.probe = "raised"
    /\ last.resp.kind = "redirect"
    /\ last.resp.location = PrivateUrl(last.req.key, "django/", TokenOf(0))

\* C9: a GET of a path that does not end in a separator is never probed
\* against the mirror and is answered through get_token.
C9_FileGetSkipsMirror ==
    /\ \A t \in Threads : pc[t] = "probe" => req[t].method = "GET" /\ req[t].path = "django/"
    /\ ServedFile =>
           /\ last.hist.probe = "none"
           /\ last.hist.gt = 1
           /\ AnswerWithToken

\* C9 witness: a file GET redirected to the private URL.
C9_Witness ==
    /\ ServedFile
    /\ last.resp.kind = "redirect"
    /\ last.resp.location = PrivateUrl(last.req.key, FilePath, TokenOf(0))

\* C10 as stated: every request whose upstream connection fails while the
\* POST is being forwarded ends with status 500 and a structured error body.
C10_EveryFailureIsA500 ==
    (Served /\ last.hist.upstream \in { "raised", "truncated" }) =>
        last.resp.kind = "error" /\ last.resp.status = 500

\* C10 as amended: a token failure ends in the 500 whose body names the
\* repository, and an upstream connection error raised by the POST itself
\* ends in a 500 with an error body; an upstream error after the status line
\* was sent truncates the stream under the upstream's status instead.
C10_FailuresBeforeTheResponseAre500 ==
    Served =>
        /\ (last.hist.upstream = "none" /\ last.hist.gt > 0 /\ Got = None) =>
               /\ last.resp.kind = "error"
               /\ last.resp.status = 500
               /\ last.resp.body.error = "Failed to get token for " \o KeyName(last.req.key)
        /\ last.hist.upstream = "raised" =>
               /\ last.resp.kind = "error"
               /\ last.resp.status = 500
               /\ last.resp.body.error # ""
        /\ last.hist.upstream = "truncated" =>
               /\ last.resp.kind = "stream"
               /\ last.resp.ended = "truncated"
               /\ last.resp.status \in { o.status : o \in PostOutcomes }

\* C10 witness: a POST whose token could not be obtained answered with 500.
C10_Witness ==
    /\ Served
    /\ last.req.method = "POST"
    /\ last.hist.cp = 1
    /\ last.resp.kind = "error"
    /\ last.resp.status = 500

\* The request that has just completed was failed by generate_url for want of
\* a token.
TokenFailed ==
    /\ Served
    /\ last.hist.gt > 0
    /\ last.hist.upstream = "none"
    /\ last.resp.kind = "error"

\* C11: a refresh attempt makes one CredentialProvider call and no more, and
\* a failed refresh is retried by the next request: a get_token(K) that finds
\* the failure of an earlier refresh issues a CredentialProvider call of its
\* own, so no request fails for want of a token without having called the
\* provider.
C11_FailedRefreshIsRetriedByNextRequest ==
    /\ \A t \in Threads : hist[t].cp <= 1
    /\ last.hist.cp <= 1
    /\ TokenFailed => last.hist.cp = 1

\* The threads inside the body of get_token for the cache key of k.
InFlight(k) ==
    { t \in Threads :
        /\ pc[t] \in { "clear", "fetch", "store" }
        /\ get_cache_key(req[t].key) = get_cache_key(k) }

\* C12: once no refresh for K is in flight, a valid cached token for K and a
\* FailureRecord for K do not coexist.
C12_TokenAndFailureNeverCoexist ==
    \A k \in repos :
        (InFlight(k) = {} /\ ValidToken(cache, k, now))
            => get_cache_key(k) \notin DOMAIN TOKEN_ERRORS

\* The FailureRecord of repository k in the error map (none, or one).
FailureRecord(errors, k) ==
    { errors[ck] : ck \in DOMAIN errors \cap { get_cache_key(k) } }

\* C13: every RepositoryKey has an error-map entry of its own, so a step of
\* a refresh attempt for K (clearing K's record, or recording K's failure)
\* leaves the FailureRecord of every other RepositoryKey as it was.
C13_RefreshLeavesOtherKeysRecords ==
    [][\A t \in Threads : \A k \in repos :
           (pc[t] \in { "clear", "fetch" } /\ pc'[t] # pc[t] /\ req[t].key # k)
               => FailureRecord(TOKEN_ERRORS', k) = FailureRecord(TOKEN_ERRORS, k)]_vars

\* Thread u can take the next step of its handler.
CanProceed(u) ==
    /\ pc[u] = "idle" =>
           /\ ENABLED HealthzErrors(u)
           /\ \A r \in Requests : ENABLED ReceiveProxy(u, r)
    /\ pc[u] = "clear" => ENABLED ClearAndCall(u)
    /\ pc[u] = "store" => ENABLED StoreFailure(u)
    /\ pc[u] = "hz_cache" => ENABLED HealthzCache(u)
    /\ pc[u] = "fetch" =>
           /\ ENABLED ProviderReturns(u)
           /\ \A e \in ProviderErrors : ENABLED ProviderRaises(u, e)

\* C14: while a CredentialProvider call is in flight no lock is held, and
\* every other thread can take its next step: a get_token for another key, a
\* read of a cached token, a health report.
C14_NoLockAcrossProviderCall ==
    \A t \in Threads :
        pc[t] = "fetch" =>
            /\ ERROR_LOCK = Free
            /\ \A u \in Threads \ { t } : CanProceed(u)

\* C14 witness: while the CredentialProvider call for K1 is in flight, a
\* request for K3 has gone through a refresh of its own and been answered.
C14_Witness ==
    /\ \E t \in Threads : pc[t] = "fetch" /\ req[t].key = K1
    /\ Served
    /\ last.req.key = K3
    /\ last.hist.cp = 1
    /\ last.resp.kind = "redirect"

\* C15: a token leaves the cache only when its own TTL has elapsed: an entry
\* that holds a token and is still within its TTL after a step is still in
\* the cache after that step, whatever other keys the step looked up.
C15_OnlyExpiryRemovesToken ==
    [][\A i \in 1 .. Len(cache) :
           (cache[i].value # None /\ now' < cache[i].expires)
               => CacheIndex(cache', cache[i].key) # {}]_vars

\* C16: every GET of a directory path that is waiting for the mirror's
\* answer to the HEAD probe eventually completes or fails.
C16_DirectoryGetTerminates ==
    \A t \in Threads : (pc[t] = "probe") ~> (pc[t] = "idle")

\* How far a handler has come: routing (the mirror probe, the health
\* report), the steps of token acquisition, forwarding.
Stage(p) ==
    CASE p = "idle" -> 0
      [] p \in { "probe", "hz_cache" } -> 1
      [] p = "clear" -> 2
      [] p = "fetch" -> 3
      [] p = "store" -> 4
      [] p = "forward" -> 5

\* C17: a request only moves forward through routing, token acquisition and
\* forwarding until it completes or fails; only a POST that holds a token
\* from its one get_token call is ever forwarding, a request whose token
\* acquisition failed was not forwarded, and a GET is never forwarded.
C17_OnlyPostsWithTokenAreForwarded ==
    /\ [](\A t \in Threads :
              pc[t] = "forward" =>
                  /\ req[t].method = "POST"
                  /\ hist[t].gt = 1
                  /\ tok[t] \notin { None, "" })
    /\ [](Served =>
              /\ last.hist.upstream # "none" =>
                     last.req.method = "POST" /\ last.hist.gt = 1
              /\ last.req.method = "GET" =>
                     last.hist.upstream = "none" /\ last.resp.kind \in { "redirect", "error" }
              /\ (/\ last.resp.kind = "error"
                  /\ last.resp.body.error = "Failed to get token for " \o KeyName(last.req.key))
                     => last.hist.upstream = "none")
    /\ [][\A t \in Threads :
              pc'[t] # pc[t] => pc'[t] = "idle" \/ Stage(pc'[t]) > Stage(pc[t])]_vars

\* C17 witness: a POST that fetched its token and was streamed to the end.
C17_Witness ==
    /\ Served
    /\ last.req.method = "POST"
    /\ last.hist.cp = 1
    /\ last.resp.kind = "stream"
    /\ last.resp.status = 200
    /\ last.resp.ended = "complete"

\* C18: a health report is one snapshot: between its look at the error map
\* and its read of the cache no step of another thread changes the cache or
\* the error map, so a report that says healthy is given in a state with no
\* FailureRecord.
C18_ReportFromOneSnapshot ==
    /\ []((last.resp.kind = "health" /\ last.resp.status = 200)
              => DOMAIN TOKEN_ERRORS = {})
    /\ [][\A t \in Threads :
              (pc[t] = "hz_cache" /\ pc'[t] = "hz_cache")
                  => UNCHANGED <<cache, TOKEN_ERRORS>>]_vars

\* Whether string sub occurs in string s.
Contains(s, sub) ==
    \E i \in 1 .. Len(s) - Len(sub) + 1 : SubSeq(s, i, i + Len(sub) - 1) = sub

\* The token strings the CredentialProvider has issued that the server holds:
\* in the cache, in a handler's hands, or in a call about to return.
HeldTokens ==
    ({ cache[i].value : i \in 1 .. Len(cache) }
        \cup { tok[t] : t \in Threads }
        \cup { TokenOf(hist[t].at) : t \in { u \in Threads : pc[u] = "fetch" } })
      \ { None }

\* The cache with every cached value replaced by the same string.
Redacted(c) == [i \in 1 .. Len(c) |-> [c[i] EXCEPT !.value = "redacted"]]

\* The strings of an unhealthy report.
ReportStrings(body) ==
    DOMAIN body.errors
        \cup { body.errors[ck].error : ck \in DOMAIN body.errors }
        \cup { body.errors[ck].type : ck \in DOMAIN body.errors }

\* C19: a health report does not depend on token values: a healthy report is
\* the one healthz gives for the cache with every token replaced, an
\* unhealthy report is made of the error map alone, and no string of it
\* contains a token the server holds.
C19_HealthReportHoldsNoToken ==
    last.resp.kind = "health" =>
        /\ last.resp.status = 200 =>
               last.resp = healthy_response(Len(Expire(Redacted(cache), now)))
        /\ last.resp.status = 500 =>
               /\ last.resp = unhealthy_response(TOKEN_ERRORS)
               /\ \A str \in ReportStrings(last.resp.body) :
                      \A v \in HeldTokens : ~Contains(str, v)

\* C19 witness: a healthy report given while two tokens are cached.
C19_Witness ==
    /\ last.resp.kind = "health"
    /\ last.resp.status = 200
    /\ last.resp.body.cache_size = 2
    /\ \A i \in 1 .. Len(cache) : cache[i].value # None

\* The times at which the CredentialProvider can have been called.
IssueTimes == { n * TickSeconds : n \in 0 .. MaxTicks }

\* Token v, issued for durationSeconds = TOKEN_VALIDITY, is still valid at
\* time.
StillValid(v, time) ==
    \E at \in IssueTimes : v = TokenOf(at) /\ time < at + TOKEN_VALIDITY

\* C20: every token get_token returns is within the validity the provider
\* granted it at the time it is returned: the token a GET is redirected with,
\* and the token a POST goes on to forward with.
C20_ReturnedTokenIsStillValid ==
    /\ []((Served /\ last.hist.gt = 1 /\ last.resp.kind = "redirect"
             /\ last.resp.location = PrivateUrl(last.req.key, last.req.path, Got))
              => StillValid(Got, now))
    /\ [][\A t \in Threads :
              (pc[t] # "forward" /\ pc'[t] = "forward") => StillValid(tok'[t], now')]_vars
====
